---------------------------- MODULE Spec2Model ----------------------------
(***************************************************************************)
(* Model of gha-prtarget-misconfig-audit.py: the organisation / repository *)
(* scan loop (main, scan_repo, clone_repo) and the workflow classifier     *)
(* (analyze_workflows).                                                    *)
(*                                                                         *)
(* Python values are records with a type tag "t".  Strings on which the    *)
(* code does substring tests or normalisation are tuples of one-character  *)
(* strings, so that `in`, strip() and lower() are computed, not assumed.   *)
(***************************************************************************)
EXTENDS Integers, Sequences, FiniteSets, TLC

(* ---------------------------- bounds ----------------------------------- *)
\* repositories returned by `gh repo list` in an organisation scan
MaxRepos == 2
\* *.yml files under .github/workflows of one clone
MaxFiles == 2
\* jobs evaluated in one call of analyze_workflows (over all its files)
MaxJobs == 2
\* steps of one job
MaxSteps == 1

(* ------------------------ strings of the source ------------------------ *)
S_on == <<"o","n">>
S_jobs == <<"j","o","b","s">>
S_actions_checkout == <<"a","c","t","i","o","n","s","/","c","h","e","c","k","o","u","t">>
S_secrets_dot == <<"s","e","c","r","e","t","s",".">>
S_GITHUB_TOKEN == <<"G","I","T","H","U","B","_","T","O","K","E","N">>
S_fork == <<"f","o","r","k">>
S_uses == <<"u","s","e","s">>
S_run == <<"r","u","n">>
S_if == <<"i","f">>
F_checkout == "checkout usage found"
F_secrets == "secrets or GITHUB_TOKEN usage found"
F_nofork == "no fork condition (if: ...fork == false)"
F_noperm == "permissions not set"

(* --------------------------- str methods ------------------------------- *)
UpperAlpha == <<"A","B","C","D","E","F","G","H","I","J","K","L","M",
                "N","O","P","Q","R","S","T","U","V","W","X","Y","Z">>
LowerAlpha == <<"a","b","c","d","e","f","g","h","i","j","k","l","m",
                "n","o","p","q","r","s","t","u","v","w","x","y","z">>

\* str.lower() on one character
LowerChar(c) ==
  IF \E i \in 1..26 : UpperAlpha[i] = c
  THEN LowerAlpha[CHOOSE i \in 1..26 : UpperAlpha[i] = c]
  ELSE c

\* str.lower()
Lower(s) == [i \in 1..Len(s) |-> LowerChar(s[i])]

\* str.strip(ch): drop every leading and every trailing occurrence of ch
RECURSIVE LStrip(_, _)
LStrip(s, ch) ==
  IF s # <<>> /\ Head(s) = ch THEN LStrip(Tail(s), ch) ELSE s

RECURSIVE RStrip(_, _)
RStrip(s, ch) ==
  IF s # <<>> /\ s[Len(s)] = ch THEN RStrip(SubSeq(s, 1, Len(s) - 1), ch) ELSE s

Strip(s, ch) == RStrip(LStrip(s, ch), ch)

\* `p in s` for two str values: p occurs in s as a contiguous substring
Contains(s, p) ==
  \E i \in 0..(Len(s) - Len(p)) : SubSeq(s, i + 1, i + Len(p)) = p

(* --------------------------- Python values ----------------------------- *)
\* a scalar or list value of a step field; "absent" = the key is not in the step
PyStr(s) == [t |-> "str", s |-> s, items |-> <<>>]
PyNone == [t |-> "null", s |-> <<>>, items |-> <<>>]
PyBool == [t |-> "bool", s |-> <<>>, items |-> <<>>]
PyList(items) == [t |-> "list", s |-> <<>>, items |-> items]
Absent == [t |-> "absent", s |-> <<>>, items |-> <<>>]

\* `p in v` where p is a str: "T", "F", or "E" when Python raises TypeError
PyIn(p, v) ==
  CASE v.t = "str" -> IF Contains(v.s, p) THEN "T" ELSE "F"
    [] v.t = "list" -> IF \E i \in 1..Len(v.items) : v.items[i] = p THEN "T" ELSE "F"
    [] OTHER -> "E"

\* `a or b` over the three-valued results, b evaluated only when a is false
PyOr(a, b) == IF a = "F" THEN b ELSE a

(* ------------------------------- steps --------------------------------- *)
\* a step that is a mapping with the given uses / run / if values
MapStep(u, r, c) == [t |-> "map", s |-> <<>>, f |-> [uses |-> u, run |-> r, if |-> c]]
\* a step that is a plain string, and a step that is null
StrStep(s) == [t |-> "str", s |-> s, f |-> [uses |-> Absent, run |-> Absent, if |-> Absent]]
NullStep == [t |-> "null", s |-> <<>>, f |-> [uses |-> Absent, run |-> Absent, if |-> Absent]]

FieldName(field) ==
  CASE field = "uses" -> S_uses
    [] field = "run" -> S_run
    [] field = "if" -> S_if

\* `pats[1] in v or pats[2] in v or ...`
RECURSIVE AnyPattern(_, _)
AnyPattern(pats, v) ==
  IF pats = <<>> THEN "F" ELSE PyOr(PyIn(Head(pats), v), AnyPattern(Tail(pats), v))

\* `field in step and (pat in step[field] or ...)` for one step
StepTest(step, field, pats) ==
  CASE step.t = "map" ->
         IF step.f[field].t = "absent" THEN "F" ELSE AnyPattern(pats, step.f[field])
    [] step.t = "str" ->
         \* `field in step` is a substring test; step[field] then raises TypeError
         IF Contains(step.s, FieldName(field)) THEN "E" ELSE "F"
    [] OTHER -> "E"

\* any(<StepTest> for step in steps): stops at the first true step or at the
\* first step whose test raises
RECURSIVE AnyStep(_, _, _)
AnyStep(steps, field, pats) ==
  IF steps = <<>> THEN "F"
  ELSE PyOr(StepTest(Head(steps), field, pats), AnyStep(Tail(steps), field, pats))

(* -------------------------------- jobs --------------------------------- *)
\* the value under a job's "steps" key; "absent" = no such key
StepList(items) == [t |-> "list", items |-> items]
NoSteps == [t |-> "absent", items |-> <<>>]
NullSteps == [t |-> "null", items |-> <<>>]
\* steps given as one string: iterating it yields its characters
StrSteps(s) == [t |-> "str", items |-> [i \in 1..Len(s) |-> StrStep(<<s[i]>>)]]

MapJob(steps, perm) == [t |-> "map", steps |-> steps, permissions |-> perm]
NullJob == [t |-> "null", steps |-> NoSteps, permissions |-> FALSE]

has_checkout(steps) == AnyStep(steps, "uses", <<S_actions_checkout>>)
uses_secrets(steps) == AnyStep(steps, "run", <<S_secrets_dot, S_GITHUB_TOKEN>>)
has_if_fork(steps) == AnyStep(steps, "if", <<S_fork>>)
has_permissions(job) == job.permissions

Raised(e) == [err |-> e, checkout |-> FALSE, secrets |-> FALSE, fork |-> FALSE, perm |-> FALSE]

\* lines 200-213 for one job: the four signals, or the exception raised on the way
JobSignals(job) ==
  IF job.t # "map" THEN Raised("AttributeError")
  ELSE IF job.steps.t = "null" THEN Raised("TypeError")
  ELSE LET steps == job.steps.items
       IN IF has_checkout(steps) = "E" THEN Raised("TypeError")
          ELSE IF uses_secrets(steps) = "E" THEN Raised("TypeError")
          ELSE IF has_if_fork(steps) = "E" THEN Raised("TypeError")
          ELSE [err |-> "none",
                checkout |-> has_checkout(steps) = "T",
                secrets |-> uses_secrets(steps) = "T",
                fork |-> has_if_fork(steps) = "T",
                perm |-> has_permissions(job)]

\* lines 215-220: the findings in their fixed order
Findings(sig) ==
  (IF sig.checkout THEN <<F_checkout>> ELSE <<>>) \o
  (IF sig.secrets THEN <<F_secrets>> ELSE <<>>) \o
  (IF ~sig.fork THEN <<F_nofork>> ELSE <<>>) \o
  (IF ~sig.perm THEN <<F_noperm>> ELSE <<>>)

Flagged(sig) == sig.checkout \/ sig.secrets \/ ~sig.fork \/ ~sig.perm

\* Classify with line 225 missing: the review branch leaves safe as it was
Classify_RiskKeepsSafe(res, fname, jname, sig) ==
  IF Flagged(sig)
  THEN [vuln |-> Append(res.vuln, <<fname, jname, Findings(sig)>>),
        risk |-> res.risk, safe |-> FALSE]
  ELSE [vuln |-> res.vuln, risk |-> Append(res.risk, fname), safe |-> res.safe]

\* lines 215-225: the accumulation for one job whose signals were computed
Classify(res, fname, jname, sig) ==
  IF Flagged(sig)
  THEN [vuln |-> Append(res.vuln, <<fname, jname, Findings(sig)>>),
        risk |-> res.risk, safe |-> FALSE]
  ELSE [vuln |-> res.vuln, risk |-> Append(res.risk, fname), safe |-> FALSE]

(* --------------------------- top-level keys ---------------------------- *)
\* a key of the document's root mapping: a str, or the bool PyYAML makes of a bare on / off
KeyStr(s) == [t |-> "str", b |-> FALSE, s |-> s]
KeyTrue == [t |-> "bool", b |-> TRUE, s |-> <<>>]
KeyFalse == [t |-> "bool", b |-> FALSE, s |-> <<>>]

\* str(k)
StrOf(k) ==
  IF k.t = "bool"
  THEN (IF k.b THEN <<"T","r","u","e">> ELSE <<"F","a","l","s","e">>)
  ELSE k.s

\* str(k).strip('"').strip("'").lower()
Normalize(k) == Lower(Strip(Strip(StrOf(k), "\""), "'"))

\* line 176 without `or k is True`
IsOnKey_StrOnly(k) == Normalize(k) = S_on

\* line 176
IsOnKey(k) == Normalize(k) = S_on \/ (k.t = "bool" /\ k.b)
\* line 191
IsJobsKey(k) == Normalize(k) = S_jobs

\* `for k in doc.keys(): if <test>: real_on_key = k; break` : the index of
\* the first entry whose key passes the test, 0 for None
real_on_key(entries) ==
  IF \E i \in 1..Len(entries) : IsOnKey(entries[i].k)
  THEN CHOOSE i \in 1..Len(entries) :
         IsOnKey(entries[i].k) /\ \A j \in 1..(i - 1) : ~IsOnKey(entries[j].k)
  ELSE 0

\* the same loop with the jobs test
real_jobs_key(entries) ==
  IF \E i \in 1..Len(entries) : IsJobsKey(entries[i].k)
  THEN CHOOSE i \in 1..Len(entries) :
         IsJobsKey(entries[i].k) /\ \A j \in 1..(i - 1) : ~IsJobsKey(entries[j].k)
  ELSE 0

(* ------------------------------ documents ------------------------------ *)
\* a value under a top-level key, as far as the code looks at it: its type
\* and, for a mapping, its keys in order (for a list its items, for a str itself)
MapVal(keys) == [t |-> "map", keys |-> keys]
ListVal(items) == [t |-> "list", keys |-> items]
StrVal(s) == [t |-> "str", keys |-> <<s>>]
NullVal == [t |-> "null", keys |-> <<>>]

\* what yaml.safe_load gives for one file: a root of some type ("map" with
\* its entries in document order), or the exception raised while loading
MapDoc(entries) == [t |-> "map", entries |-> entries]
BadDoc(t) == [t |-> t, entries |-> <<>>]
NoDoc == BadDoc("none")

Member(x, seq) == \E i \in 1..Len(seq) : seq[i] = x

\* line 185 without the isinstance test: `in` also holds of a list item
HasPrTarget_NoTypeCheck(triggers) == Member("pull_request_target", triggers.keys)

\* line 185
HasPrTarget(triggers) == triggers.t = "map" /\ Member("pull_request_target", triggers.keys)

\* lines 161-170 without the except clause: YAMLError leaves the function
ParseOutcome_NoExcept(d) ==
  CASE d.t = "map" -> "resolve"
    [] d.t = "yamlerror" -> "raise"
    [] d.t = "decodeerror" -> "raise"
    [] OTHER -> "continue"

\* lines 161-170: what the loop does with the loaded file
ParseOutcome(d) ==
  CASE d.t = "map" -> "resolve"
    [] d.t = "yamlerror" -> "continue"
    [] d.t = "decodeerror" -> "raise"
    [] OTHER -> "continue"

\* lines 172-199 for a root mapping: skip the file, raise on jobs.items(),
\* or enter the job loop over doc[real_jobs_key]
Resolve(d) ==
  LET on == real_on_key(d.entries)
      jk == real_jobs_key(d.entries)
  IN IF on = 0 THEN [next |-> "continue", jobs |-> NullVal]
     ELSE IF ~HasPrTarget(d.entries[on].v) THEN [next |-> "continue", jobs |-> NullVal]
     ELSE IF jk = 0 THEN [next |-> "continue", jobs |-> NullVal]
     ELSE IF d.entries[jk].v.t # "map" THEN [next |-> "AttributeError", jobs |-> NullVal]
     ELSE [next |-> "jobs", jobs |-> d.entries[jk].v]

(* ------------------------- inputs of the scan -------------------------- *)
U_checkout == S_actions_checkout \o <<"@","v","3">>
U_cache == <<"a","c","t","i","o","n","s","/","c","a","c","h","e">>
R_secret == <<"e","c","h","o"," ">> \o S_secrets_dot \o <<"K">>
R_token == <<"e","c","h","o"," ","$">> \o S_GITHUB_TOKEN
R_plain == <<"e","c","h","o"," ","s","e","c","r","e","t","s">>
I_fork == <<"r","e","p","o",".">> \o S_fork \o <<" ","=","="," ","f","a","l","s","e">>
I_always == <<"a","l","w","a","y","s","(",")">>

\* the steps a workflow file may hold: well-formed ones covering every
\* combination of the three step signals (with near misses: "secrets"
\* without the dot, an if that is not about forks), and ill-typed ones
\* (if: true, an empty run:, list values, a step that is a string)
StepSet ==
  { MapStep(PyStr(U_checkout), Absent, Absent),
    MapStep(PyStr(U_cache), Absent, PyStr(I_always)),
    MapStep(Absent, PyStr(R_secret), Absent),
    MapStep(Absent, PyStr(R_plain), PyStr(I_fork)),
    MapStep(PyStr(U_checkout), Absent, PyStr(I_fork)),
    MapStep(Absent, PyStr(R_secret), PyStr(I_fork)),
    MapStep(PyStr(U_checkout), PyStr(R_token), Absent),
    MapStep(PyStr(U_checkout), PyStr(R_secret), PyStr(I_fork)),
    MapStep(Absent, PyStr(R_plain), PyBool),
    MapStep(Absent, PyNone, PyStr(I_fork)),
    MapStep(PyList(<<S_actions_checkout>>), Absent, PyList(<<S_fork>>)),
    StrStep(<<"r","u","n"," ","i","t">>) }

StepSeqs == UNION { [1..n -> StepSet] : n \in 0..MaxSteps }

JobSet ==
  { MapJob(st, perm) :
      st \in {NoSteps, NullSteps, StrSteps(S_uses)} \cup { StepList(q) : q \in StepSeqs },
      perm \in BOOLEAN }
  \cup {NullJob}

JobNames == <<"build", "test", "lint", "deploy", "docs">>
FileNames == <<"ci.yml", "pr.yml", "release.yml", "labeler.yml", "docs.yml">>

\* a jobs mapping with n jobs
JobsMap(n) == MapVal(SubSeq(JobNames, 1, n))

Entry(k, v) == [k |-> k, v |-> v]
NameEntry == Entry(KeyStr(<<"n","a","m","e">>), StrVal("CI"))

K_on == KeyStr(S_on)
K_ON_quoted == KeyStr(<<"'","O","N","'">>)
K_On_dquoted == KeyStr(<<"\"","O","n","\"">>)
K_True_str == KeyStr(<<"T","r","u","e">>)
K_jobs == KeyStr(S_jobs)
K_Jobs_quoted == KeyStr(<<"\"","J","o","b","s","\"">>)

T_prt == MapVal(<<"pull_request_target">>)
T_push_prt == MapVal(<<"push", "pull_request_target">>)
T_push == MapVal(<<"push">>)
T_list == ListVal(<<"pull_request_target">>)
T_str == StrVal("pull_request_target")

\* the trigger part of a root mapping: no such key, one key in one of its
\* spellings (or a near miss: the str "True", the bool false), or two keys
\* that both pass the test of line 176
TriggerParts ==
  { <<>> }
  \cup { <<Entry(KeyTrue, v)>> : v \in {T_prt, T_push_prt, T_push, T_list, T_str, NullVal} }
  \cup { <<Entry(K_on, v)>> : v \in {T_prt, T_push, T_list} }
  \cup { <<Entry(K_ON_quoted, v)>> : v \in {T_prt, T_str} }
  \cup { <<Entry(K_True_str, T_prt)>>,
         <<Entry(KeyFalse, T_prt)>>,
         <<Entry(KeyTrue, T_push), Entry(K_on, T_prt)>>,
         <<Entry(K_On_dquoted, T_prt), Entry(KeyTrue, T_str)>> }

\* the jobs part: no such key, or one key in one of its spellings whose value
\* is empty, a list, or a mapping of at most MaxJobs jobs
JobsParts ==
  { <<>>, <<Entry(K_Jobs_quoted, JobsMap(1))>> }
  \cup { <<Entry(K_jobs, v)>> :
           v \in {NullVal, ListVal(<<"build">>)} \cup { JobsMap(i) : i \in 0..MaxJobs } }

\* the files analyze_workflows may meet; a root mapping whose trigger part
\* does not lead to the job loop comes without a jobs key or with one job
Docs ==
  { BadDoc(t) : t \in {"yamlerror", "decodeerror", "null", "list", "str"} }
  \cup { MapDoc(<<NameEntry>> \o tp \o jp) :
           tp \in { q \in TriggerParts : real_on_key(q) # 0 /\ HasPrTarget(q[real_on_key(q)].v) },
           jp \in JobsParts }
  \cup { MapDoc(<<NameEntry>> \o tp \o jp) :
           tp \in TriggerParts, jp \in { <<>>, <<Entry(K_jobs, JobsMap(1))>> } }

\* Resolve over the root mappings of Docs
Resolved == [d \in { x \in Docs : x.t = "map" } |-> Resolve(d)]

\* the jobs the document would have evaluated
JobCount(d) ==
  IF d.t = "map" /\ Resolve(d).next = "jobs" THEN Len(Resolve(d).jobs.keys) ELSE 0

\* the documents that evaluate at most n jobs
DocsUpTo == [n \in 0..MaxJobs |-> { d \in Docs : JobCount(d) <= n }]

(* --------- the four signals as section 4.2 of the spec reads them ------ *)
\* the steps of a job: its step sequence, empty if absent or of a wrong type
StepsOf(job) ==
  IF job.t = "map" /\ job.steps.t = "list" THEN job.steps.items ELSE <<>>

\* the step is a mapping whose field is a string containing one of the patterns
Mentions(step, field, pats) ==
  /\ step.t = "map"
  /\ step.f[field].t = "str"
  /\ \E i \in 1..Len(pats) : Contains(step.f[field].s, pats[i])

SomeStep(job, field, pats) ==
  \E i \in 1..Len(StepsOf(job)) : Mentions(StepsOf(job)[i], field, pats)

SignalsOf(job) ==
  [job |-> TRUE,
   checkout |-> SomeStep(job, "uses", <<S_actions_checkout>>),
   secrets |-> SomeStep(job, "run", <<S_secrets_dot, S_GITHUB_TOKEN>>),
   fork |-> SomeStep(job, "if", <<S_fork>>),
   perm |-> job.t = "map" /\ job.permissions]

NoSeen == [job |-> FALSE, checkout |-> FALSE, secrets |-> FALSE, fork |-> FALSE, perm |-> FALSE]

\* what the job loop computes for each job of JobSet, next to the signals
\* the spec reads off the same job
JobRuns == { [sig |-> JobSignals(job), seen |-> SignalsOf(job)] : job \in JobSet }

(* ------------------------------- state --------------------------------- *)
VARIABLES
  pc,        \* where the program is
  todo,      \* main: the repositories the loop of line 286 has not reached yet
  repo,      \* scan_repo: the repository being scanned (0: none)
  workdirs,  \* the repositories whose temporary directory exists
  exc,       \* the exception propagating to scan_repo's handler, or "none"
  fi,        \* analyze_workflows: files taken from the glob so far
  doc,       \* analyze_workflows: the document just loaded (NoDoc once it is dead)
  jobs,      \* analyze_workflows: doc[real_jobs_key]
  ji,        \* analyze_workflows: jobs taken from jobs.items() so far
  results,   \* analyze_workflows: the accumulator
  seen       \* the signals of the job just evaluated, as the spec reads them

vars == <<pc, todo, repo, workdirs, exc, fi, doc, jobs, ji, results, seen>>

\* line 153
NewResults == [vuln |-> <<>>, risk |-> <<>>, safe |-> TRUE]

\* jobs that still fit the bound in this call of analyze_workflows
JobsLeft == MaxJobs - (Len(results.vuln) + Len(results.risk))

(* ------------------------------ actions -------------------------------- *)
Init ==
  /\ pc = "main"
  /\ todo = 0
  /\ repo = 0
  /\ workdirs = {}
  /\ exc = "none"
  /\ fi = 0
  /\ doc = NoDoc
  /\ jobs = NullVal
  /\ ji = 0
  /\ results = NewResults
  /\ seen = NoSeen

\* the locals of analyze_workflows once the call is over
LocalsGone ==
  /\ fi' = 0
  /\ doc' = NoDoc
  /\ jobs' = NullVal
  /\ ji' = 0

\* an exception leaves analyze_workflows: its frame, results included, is gone
Raise(e) ==
  /\ exc' = e
  /\ pc' = "except"
  /\ results' = NewResults
  /\ LocalsGone

\* main, lines 265-285: --repo gives one repository, --org the listing of
\* gh; the repositories are numbered todo, todo - 1, ..., 1 in list order
Main ==
  /\ pc = "main"
  /\ \E n \in 0..MaxRepos : todo' = n
  /\ pc' = "loop"
  /\ UNCHANGED <<repo, workdirs, exc, fi, doc, jobs, ji, results, seen>>

\* main, lines 267 and 281-283: check_gh_auth exits, or gh repo list fails
MainAbort ==
  /\ pc = "main"
  /\ pc' = "aborted"
  /\ UNCHANGED <<todo, repo, workdirs, exc, fi, doc, jobs, ji, results, seen>>

\* main, lines 279 / 286-287 and scan_repo, lines 229-231: the next
\* repository of the list, mkdtemp
ScanRepo ==
  /\ pc = "loop"
  /\ todo > 0
  /\ repo' = todo
  /\ todo' = todo - 1
  /\ workdirs' = workdirs \cup {todo}
  /\ pc' = "clone"
  /\ UNCHANGED <<exc, fi, doc, jobs, ji, results, seen>>

\* main, lines 289-290: the list is exhausted
MainDone ==
  /\ pc = "loop"
  /\ todo = 0
  /\ pc' = "done"
  /\ UNCHANGED <<todo, repo, workdirs, exc, fi, doc, jobs, ji, results, seen>>

\* clone_repo, lines 141-144 and scan_repo, line 233: the clone succeeds
CloneOk ==
  /\ pc = "clone"
  /\ pc' = "analyze"
  /\ UNCHANGED <<todo, repo, workdirs, exc, fi, doc, jobs, ji, results, seen>>

\* clone_repo, lines 145-149: gh fails, CalledProcessError is re-raised
CloneFail ==
  /\ pc = "clone"
  /\ Raise("CalledProcessError")
  /\ UNCHANGED <<todo, repo, workdirs, seen>>

\* analyze_workflows, lines 151-154 and 159: .github/workflows exists
AnalyzeStart ==
  /\ pc = "analyze"
  /\ results' = NewResults
  /\ pc' = "files"
  /\ UNCHANGED <<todo, repo, workdirs, exc, fi, doc, jobs, ji, seen>>

\* analyze_workflows, lines 151-157: no .github/workflows, the empty
\* verdict is returned
NoWorkflows ==
  /\ pc = "analyze"
  /\ results' = NewResults
  /\ pc' = "report"
  /\ UNCHANGED <<todo, repo, workdirs, exc, fi, doc, jobs, ji, seen>>

\* lines 159-163: the glob yields another file, which is opened and loaded
LoadFile ==
  /\ pc = "files"
  /\ fi < MaxFiles
  /\ JobsLeft > 0
  /\ \E d \in DocsUpTo[JobsLeft] : doc' = d
  /\ fi' = fi + 1
  /\ pc' = "loaded"
  /\ seen' = NoSeen
  /\ UNCHANGED <<todo, repo, workdirs, exc, jobs, ji, results>>

\* lines 164-170: YAMLError or a root that is no dict, `continue`
SkipFile ==
  /\ pc = "loaded"
  /\ ParseOutcome(doc) = "continue"
  /\ pc' = "files"
  /\ doc' = NoDoc
  /\ UNCHANGED <<todo, repo, workdirs, exc, fi, jobs, ji, results, seen>>

\* lines 161-163: the file is not UTF-8, UnicodeDecodeError is no YAMLError
LoadError ==
  /\ pc = "loaded"
  /\ ParseOutcome(doc) = "raise"
  /\ Raise("UnicodeDecodeError")
  /\ UNCHANGED <<todo, repo, workdirs, seen>>

\* lines 172-199: key resolution, trigger detection, jobs.items(); the job
\* loop is entered when the jobs mapping has a first item
ResolveKeys ==
  /\ pc = "loaded"
  /\ ParseOutcome(doc) = "resolve"
  /\ LET r == Resolved[doc]
     IN CASE r.next = "continue" \/ (r.next = "jobs" /\ r.jobs.keys = <<>>) ->
               /\ pc' = "files"
               /\ doc' = NoDoc
               /\ UNCHANGED <<exc, fi, jobs, ji, results>>
          [] r.next = "jobs" /\ r.jobs.keys # <<>> ->
               /\ pc' = "jobs"
               /\ jobs' = r.jobs
               /\ ji' = 0
               /\ doc' = NoDoc
               /\ UNCHANGED <<exc, fi, results>>
          [] OTHER -> Raise(r.next)
  /\ UNCHANGED <<todo, repo, workdirs, seen>>

\* lines 199-225: one iteration of the job loop; after the last item of
\* jobs.items() the file loop goes on
EvalJob ==
  /\ pc = "jobs"
  /\ \E run \in JobRuns :
       /\ seen' = run.seen
       /\ IF run.sig.err # "none"
          THEN Raise(run.sig.err)
          ELSE /\ results' = Classify(results, FileNames[fi], jobs.keys[ji + 1], run.sig)
               /\ IF ji + 1 < Len(jobs.keys)
                  THEN /\ ji' = ji + 1
                       /\ UNCHANGED <<pc, jobs>>
                  ELSE /\ pc' = "files"
                       /\ jobs' = NullVal
                       /\ ji' = 0
               /\ UNCHANGED <<exc, fi, doc>>
  /\ UNCHANGED <<todo, repo, workdirs>>

\* lines 159 and 227: the glob is exhausted, results is returned
Return ==
  /\ pc = "files"
  /\ pc' = "report"
  /\ seen' = NoSeen
  /\ LocalsGone
  /\ UNCHANGED <<todo, repo, workdirs, exc, results>>

\* scan_repo, lines 234-254: the verdict is printed and logged (with --poc a
\* marker file is written into the temporary directory); results is dead after
Report ==
  /\ pc = "report"
  /\ pc' = "finally"
  /\ results' = NewResults
  /\ UNCHANGED <<todo, repo, workdirs, exc, fi, doc, jobs, ji, seen>>

\* lines 256-263 with a handler that does not match: the finally clause
\* runs and the exception leaves scan_repo and main
Except_Propagates ==
  /\ pc = "except"
  /\ pc' = "aborted"
  /\ workdirs' = workdirs \ {repo}
  /\ seen' = NoSeen
  /\ UNCHANGED <<todo, repo, exc, fi, doc, jobs, ji, results>>

\* scan_repo, lines 256-261: any Exception is logged and swallowed
Except ==
  /\ pc = "except"
  /\ pc' = "finally"
  /\ seen' = NoSeen
  /\ UNCHANGED <<todo, repo, workdirs, exc, fi, doc, jobs, ji, results>>

\* scan_repo, lines 262-263: rmtree(workdir), back to main's loop
Finally ==
  /\ pc = "finally"
  /\ workdirs' = workdirs \ {repo}
  /\ exc' = "none"
  /\ repo' = 0
  /\ pc' = "loop"
  /\ UNCHANGED <<todo, fi, doc, jobs, ji, results, seen>>

Next ==
  \/ Main
  \/ MainAbort
  \/ ScanRepo
  \/ MainDone
  \/ CloneOk
  \/ CloneFail
  \/ AnalyzeStart
  \/ NoWorkflows
  \/ LoadFile
  \/ SkipFile
  \/ LoadError
  \/ ResolveKeys
  \/ EvalJob
  \/ Return
  \/ Report
  \/ Except
  \/ Finally

Spec == Init /\ [][Next]_vars

\* the program is sequential: a step that can be taken is taken
FairSpec == Init /\ [][Next]_vars /\ WF_vars(Next)

(* ------------------------------ claims --------------------------------- *)
NoDuplicates(seq) == \A i, j \in 1..Len(seq) : i # j => seq[i] # seq[j]

\* section 4.2, steps 1-2: a trigger key resolves at the top level and its
\* value is a mapping with the key pull_request_target
DeclaresTrigger(d) ==
  \E i \in 1..Len(d.entries) :
    /\ IsOnKey(d.entries[i].k)
    /\ \A j \in 1..(i - 1) : ~IsOnKey(d.entries[j].k)
    /\ d.entries[i].v.t = "map"
    /\ Member("pull_request_target", d.entries[i].v.keys)

\* section 4.2, edge case: no jobs key resolves, it has no value, or the
\* jobs mapping is empty
ZeroJobs(d) ==
  \/ \A i \in 1..Len(d.entries) : ~IsJobsKey(d.entries[i].k)
  \/ LET v == d.entries[real_jobs_key(d.entries)].v
     IN v.t = "null" \/ (v.t = "map" /\ v.keys = <<>>)

\* C1: a job of a pull_request_target workflow for which at least one of
\* hasCheckout, usesSecretsOrToken, NOT hasForkGuard, NOT hasPermissions holds
\* appends exactly one entry (filename, job name, findings) to vuln, the
\* findings being those whose conditions held, in the fixed order.
C1_FlaggedJobAppended ==
  [][ (pc = "jobs" /\ Flagged(seen'))
        => /\ results'.vuln =
                Append(results.vuln, <<FileNames[fi], jobs.keys[ji + 1], Findings(seen')>>)
           /\ results'.risk = results.risk ]_vars

\* C2: a job in which all four safeguards hold adds no entry to vuln and its
\* workflow's filename is in risk afterwards.
C2_GuardedJobToReview ==
  [][ (pc = "jobs" /\ seen'.job /\ ~Flagged(seen'))
        => /\ results'.vuln = results.vuln
           /\ Member(FileNames[fi], results'.risk) ]_vars

\* C3: in the verdict analyze_workflows returns, no filename occurs more
\* than once in risk, however many unflagged jobs the file has.
C3_FileOncePerReview ==
  pc = "report" => NoDuplicates(results.risk)

\* C4: at every point of the accumulation and in the returned verdict, safe
\* is true exactly when vuln and risk are both empty.
C4_SafeIffEmpty ==
  results.safe <=> (results.vuln = <<>> /\ results.risk = <<>>)

C4_Witness ==
  /\ results.vuln # <<>>
  /\ results.risk # <<>>
  /\ ~results.safe

\* C5: no malformed shape of jobs, a job, steps or a step field makes the
\* classification raise.
C5_NeverRaises ==
  exc \notin {"AttributeError", "TypeError"}

\* C6: a pull_request_target workflow with zero jobs (no jobs key, a jobs key
\* without value, an empty jobs mapping) changes neither partition nor safe,
\* and the file loop goes on without an error.
C6_ZeroJobsNoEffect ==
  [][ (pc = "loaded" /\ doc.t = "map" /\ DeclaresTrigger(doc) /\ ZeroJobs(doc))
        => (results' = results /\ pc' = "files" /\ exc' = "none") ]_vars

\* the root mappings of Docs that declare the trigger
TriggerDocs == { d \in Docs : d.t = "map" /\ DeclaresTrigger(d) }

\* C7: a document whose trigger key does not resolve to a mapping with the
\* key pull_request_target leaves vuln, risk and safe unchanged; entries are
\* only ever added by the job loop, which only such a mapping opens.
C7_OnlyTriggerContributes ==
  [][ /\ (pc = "loaded" /\ doc.t = "map" /\ doc \notin TriggerDocs)
          => (results' = results /\ pc' = "files" /\ exc' = "none")
      /\ (pc = "loaded" /\ pc' = "jobs") => doc \in TriggerDocs
      /\ (Len(results'.vuln) > Len(results.vuln) \/ Len(results'.risk) > Len(results.risk))
          => pc = "jobs" ]_vars

C7_Witness ==
  /\ pc = "loaded"
  /\ doc.t = "map"
  /\ real_on_key(doc.entries) # 0
  /\ doc.entries[real_on_key(doc.entries)].v = T_list
  /\ real_jobs_key(doc.entries) # 0
  /\ results.vuln # <<>>

\* the spellings of the trigger key: the bool true, or a str that is "on"
\* once quotes are stripped and case is folded
OnSpellings == {KeyTrue, K_on, K_ON_quoted, K_On_dquoted}

\* the document with the key of its i-th entry replaced
WithKey(d, i, k) == MapDoc([d.entries EXCEPT ![i] = Entry(k, d.entries[i].v)])

\* the root mappings of Docs for which every respelling of a trigger key
\* (to a spelling the mapping does not hold yet) resolves to the same outcome
FormIndependentDocs ==
  { d \in Docs :
      /\ d.t = "map"
      /\ \A i \in 1..Len(d.entries) : \A k \in OnSpellings :
           ( /\ d.entries[i].k \in OnSpellings
             /\ \A j \in 1..Len(d.entries) : d.entries[j].k # k )
             => Resolve(WithKey(d, i, k)) = Resolve(d) }

\* C8: replacing the trigger key by another of its spellings (bool true, or
\* a str equal to "on" after stripping quotes and folding case) changes
\* nothing in what the file contributes: it is skipped, raises, or opens the
\* job loop over the same jobs.
C8_FormIndependent ==
  (pc = "loaded" /\ doc.t = "map") => doc \in FormIndependentDocs

C8_Witness ==
  /\ pc = "loaded"
  /\ doc.t = "map"
  /\ real_on_key(doc.entries) # 0
  /\ doc.entries[real_on_key(doc.entries)].k = KeyTrue
  /\ Resolve(doc).next = "jobs"
  /\ Resolve(WithKey(doc, real_on_key(doc.entries), K_ON_quoted)).next = "jobs"

C10_FailureIsPerRepository ==
  /\ (pc = "except") ~> (pc = "done" /\ todo = 0 /\ workdirs = {})
  /\ [][ /\ pc = "except" => (pc' = "finally" /\ todo' = todo /\ repo' = repo)
         /\ pc = "finally" => (pc' = "loop" /\ workdirs' = {} /\ todo' = todo)
         /\ pc' = "clone" => (repo' = todo /\ todo' = todo - 1) ]_vars

C10_Witness ==
  /\ pc = "except"
  /\ exc \in {"CalledProcessError", "TypeError"}
  /\ todo > 0
  /\ workdirs = {repo}

=============================================================================
